---------------------------- MODULE Spec2Model ----------------------------
(***************************************************************************)
(* A state-machine model of src/simulator.py: the Barabasi-Albert network  *)
(* generator (prepare_network), the rejection sampler (_random_subset),   *)
(* the per-user process (User.run and its three methods), population      *)
(* growth (add_users), the statistics snapshot (save_stats) and the main  *)
(* control loop (run) driving the SimPy event queue.                       *)
(*                                                                         *)
(* Users are numbered 1, 2, ... in creation order.  The Python lists      *)
(* friends, active_users, inactive_users and repeated_nodes are only ever *)
(* read through len(), iteration for summing, random.choice, remove and   *)
(* filtering, so each is kept as a multiset: a function from users to the *)
(* number of occurrences of that user in the list.                         *)
(***************************************************************************)
EXTENDS Integers, Sequences, FiniteSets, TLC

(* ------------------------------ bounds -------------------------------- *)

\* largest number of User objects ever created in a modelled run
MaxUsers == 4
\* INITIAL_USERS, scaled down (line 17 sets 100000)
INITIAL_USERS == 2
\* largest n and m of a direct call prepare_network(env, n, m)
MaxN == 4
MaxM == 2
\* SIMULATION_ROUNDS, scaled down (line 14 sets 201)
SIMULATION_ROUNDS == 3
\* the snapshot period, scaled down (line 279 tests env.peek() % 10)
STATS_INTERVAL == 2
\* randrange(int(INITIAL_USERS * 0.01), int(INITIAL_USERS * 0.05)), scaled
GrowLow == 1
GrowHigh == 3
\* the last tick to which a single user is followed (SpecShare)
MaxTick == 18

Users == 1..MaxUsers

(* SimPy event priorities: Initialize events are URGENT, the rest NORMAL. *)
URGENT == 0
NORMAL == 1

VARIABLES
    entry,              \* the function called: run or prepare_network
    n, m,               \* arguments of prepare_network
    pc,                 \* position of the single thread of control
    now,                \* env.now
    queue,              \* SimPy's event queue, in processing order
    nusers,             \* number of User objects created so far
    friends, shares, share_ops, last_share, active, joined, left,
    shares_downloaded, shares_received,   \* the fields of each User
    active_users, inactive_users, repeated_nodes,   \* fields of env
    targets, source,    \* locals of prepare_network
    results,            \* run()'s results dictionary
    last,               \* run()'s local `last`
    cur,                \* the user whose process is being resumed
    growLeft,           \* iterations left in add_users' for loop
    samples,            \* the _random_subset calls of the latest action
    ev,                 \* the latest user method that ran, and its outcome
    acted,              \* per user: loop bodies of User.run in this tick
    tickStart,          \* users that were active when env.now last advanced
    growth,             \* add_users in this tick: calls made, number drawn
    trail               \* methods called so far in the running loop body

vars == << entry, n, m, pc, now, queue, nusers, friends, shares, share_ops,
           last_share, active, joined, left, shares_downloaded,
           shares_received, active_users, inactive_users, repeated_nodes,
           targets, source, results, last, cur, growLeft, samples, ev,
           acted, tickStart, growth, trail >>

userFields == << friends, shares, share_ops, last_share, active, joined,
                 left, shares_downloaded, shares_received >>

(* ------------------------- multisets of users ------------------------- *)

RECURSIVE Sum(_, _)
Sum(f, S) == IF S = {} THEN 0
             ELSE LET x == CHOOSE y \in S : TRUE IN f[x] + Sum(f, S \ {x})

EmptyBag == [u \in Users |-> 0]
BagOfSet(S) == [u \in Users |-> IF u \in S THEN 1 ELSE 0]
BagPlus(a, b) == [u \in Users |-> a[u] + b[u]]
BagTimes(k, a) == [u \in Users |-> k * a[u]]
BagElems(b) == {u \in Users : b[u] > 0}
\* len(list)
Len_(b) == Sum(b, Users)


(* ----------------------------- sampling ------------------------------- *)

\* a sampler that forgets the test of line 96
Accepts_NoActiveTest(act, x) == TRUE

\* line 96: a drawn element is added to targets only if it is active
Accepts(act, x) == act[x]

\* Lines 93-98.  The loop leaves `while len(targets) < m` only with a set
\* that holds m elements; a draw changes targets only when it yields an
\* active element not yet in it.  The value is the set of all sets the
\* loop can return; it is empty when no sequence of draws ends the loop.
RECURSIVE SubsetLoop(_, _, _, _)
SubsetLoop(seq, k, act, T) ==
    IF ~(Cardinality(T) < k) THEN {T}
    ELSE UNION { SubsetLoop(seq, k, act, T \cup {x}) :
                    x \in {y \in BagElems(seq) : Accepts(act, y) /\ y \notin T} }

_random_subset(seq, k, act) == SubsetLoop(seq, k, act, {})

\* How a call ends: it returns, random.choice raises IndexError on an
\* empty sequence, or the loop draws forever.
SubsetStatus(seq, k, act) ==
    IF _random_subset(seq, k, act) # {} THEN "returned"
    ELSE IF Len_(seq) = 0 THEN "IndexError"
    ELSE "hang"

\* the record kept of one call
Call(seq, k, act, st, out) ==
    [seq |-> seq, k |-> k, act |-> {u \in Users : act[u]},
     status |-> st, out |-> out]

(* --------------------------- the event queue -------------------------- *)

Event(t, prio, kind, u) == [time |-> t, prio |-> prio, kind |-> kind, user |-> u]

\* env.schedule: events are processed by time, then priority, then age
Schedule(q, e) ==
    LET k == Cardinality({i \in 1..Len(q) :
                 q[i].time < e.time \/ (q[i].time = e.time /\ q[i].prio <= e.prio)})
    IN SubSeq(q, 1, k) \o << e >> \o SubSeq(q, k + 1, Len(q))

RECURSIVE ScheduleAll(_, _)
ScheduleAll(q, es) == IF es = << >> THEN q
                      ELSE ScheduleAll(Schedule(q, Head(es)), Tail(es))

\* env.peek(): the time of the next event; infinity when there is none
Infinity == SIMULATION_ROUNDS + 1000
Peek == IF queue = << >> THEN Infinity ELSE Head(queue).time

(* ------------------------------ save_stats ---------------------------- *)

Created == 1..nusers

\* lines 217-260
save_stats ==
    LET au == active_users
        iu == inactive_users
        inac(u) == Sum([v \in Users |-> IF active[v] THEN 0 ELSE friends[u][v]], Users)
        both == BagPlus(au, iu)
        degs == {Len_(friends[u]) : u \in BagElems(au)}
    IN [users |-> Len_(au) + Len_(iu),
        users_active |-> Len_(au),
        users_inactive |-> Len_(iu),
        shares |-> Sum([u \in Users |-> both[u] * shares[u]], Users),
        share_ops |-> Sum([u \in Users |-> both[u] * share_ops[u]], Users),
        share_noretr |-> Sum([u \in Users |->
                           both[u] * (shares[u] - shares_downloaded[u])], Users),
        share_neverretr |-> Sum([u \in Users |-> au[u] * share_ops[u]], Users)
                          + Sum([u \in Users |-> iu[u] * shares_received[u]], Users),
        friends |-> Sum([u \in Users |-> both[u] * Len_(friends[u])], Users),
        friends_inactive |-> Sum([u \in Users |-> both[u] * inac(u)], Users),
        friend_distribution |->
            [d \in degs |-> Sum([u \in Users |->
                               IF Len_(friends[u]) = d THEN au[u] ELSE 0], Users)]]

(* --------------------------------- Init ------------------------------- *)

NoEvent == [op |-> "none", user |-> 0, t |-> 0, d |-> 0]
NoGrowth == [calls |-> 0, g |-> 0]

\* line 266: run() calls prepare_network(env, INITIAL_USERS, 1); a direct
\* call of prepare_network may pass any n and m
Init ==
    /\ entry \in {"run", "prepare_network"}
    /\ n \in IF entry = "run" THEN {INITIAL_USERS} ELSE 1..MaxN
    /\ m \in IF entry = "run" THEN {1} ELSE 0..MaxM
    /\ pc = "prepare_network"
    /\ now = 0
    /\ queue = << >>
    /\ nusers = 0
    /\ friends = [u \in Users |-> EmptyBag]
    /\ shares = [u \in Users |-> 0]
    /\ share_ops = [u \in Users |-> 0]
    /\ last_share = [u \in Users |-> 0]
    /\ active = [u \in Users |-> FALSE]
    /\ joined = [u \in Users |-> 0]
    /\ left = [u \in Users |-> -1]
    /\ shares_downloaded = [u \in Users |-> 0]
    /\ shares_received = [u \in Users |-> 0]
    /\ active_users = EmptyBag
    /\ inactive_users = EmptyBag
    /\ repeated_nodes = EmptyBag
    /\ targets = [alias |-> FALSE, elems |-> {}]
    /\ source = 0
    /\ results = << >>
    /\ last = FALSE
    /\ cur = 0
    /\ growLeft = 0
    /\ samples = << >>
    /\ ev = NoEvent
    /\ acted = [u \in Users |-> 0]
    /\ tickStart = {}
    /\ growth = NoGrowth
    /\ trail = << >>


(* ------------------------------ User.__init__ ------------------------- *)

\* Lines 104-127 for the users in S, created at env.now: the process is
\* registered with the environment (an Initialize event, URGENT, at
\* env.now), the user is active and joined now; friends and the counters
\* start empty, as they are for every user not yet created.
UserInit(S) ==
    /\ nusers' = nusers + Cardinality(S)
    /\ active' = [u \in Users |-> IF u \in S THEN TRUE ELSE active[u]]
    /\ joined' = [u \in Users |-> IF u \in S THEN now ELSE joined[u]]
    /\ queue' = ScheduleAll(queue,
                   [i \in 1..Cardinality(S) |->
                       Event(now, URGENT, "Initialize", nusers + i)])

(* ---------------------------- prepare_network ------------------------- *)

\* a parameter check that lets m = n through
InvalidParameters_OffByOne == m < 1 \/ m > n

\* line 51: if m < 1 or m >= n
InvalidParameters == m < 1 \/ m >= n

\* lines 51-64: the parameter check and the m seed users; targets is the
\* very list object env.active_users (line 60), not a copy of it
PrepareNetwork ==
    /\ pc = "prepare_network"
    /\ IF InvalidParameters
       THEN /\ pc' = "AssertionError"
            /\ UNCHANGED << nusers, active, joined, queue, active_users,
                            repeated_nodes, targets, source >>
       ELSE /\ pc' = "build"
            /\ UserInit(1..m)
            /\ active_users' = BagOfSet(1..m)
            /\ targets' = [alias |-> TRUE, elems |-> {}]
            /\ repeated_nodes' = EmptyBag
            /\ source' = m
    /\ UNCHANGED << entry, n, m, growth, trail, now, friends, shares, share_ops, last_share, left,
                    shares_downloaded, shares_received, inactive_users,
                    results, last, cur, growLeft, samples, ev, acted,
                    tickStart >>

\* the list `targets` of one iteration of the while loop, read after line 68
\* has appended the new user to env.active_users
TargetsList(au) == IF targets.alias THEN au ELSE BagOfSet(targets.elems)

\* lines 69-71: newuser.friends += targets; each target's friends += [newuser]
AttachEdges(fr, newuser, T) ==
    LET fr1 == [fr EXCEPT ![newuser] = BagPlus(@, T)]
    IN [u \in Users |-> BagPlus(fr1[u], BagTimes(T[u], BagOfSet({newuser})))]

\* lines 65-79, one iteration of the while loop; lines 80 and 267-272 when
\* the loop is left: run() creates inactive_users and takes the snapshot 0
Build ==
    /\ pc = "build"
    /\ IF source < n
       THEN LET newuser == nusers + 1
                au == BagPlus(active_users, BagOfSet({newuser}))
                T == TargetsList(au)
                rn == BagPlus(BagPlus(repeated_nodes, T),
                              BagTimes(m, BagOfSet({newuser})))
                st == SubsetStatus(rn, m, active')
            IN /\ UserInit({newuser})
               /\ active_users' = au
               /\ friends' = AttachEdges(friends, newuser, T)
               /\ repeated_nodes' = rn
               /\ source' = source + 1
               /\ IF st = "returned"
                  THEN \E R \in _random_subset(rn, m, active') :
                          /\ targets' = [alias |-> FALSE, elems |-> R]
                          /\ samples' = << Call(rn, m, active', st, R) >>
                          /\ pc' = "build"
                  ELSE /\ targets' = targets
                       /\ samples' = << Call(rn, m, active', st, {}) >>
                       /\ pc' = st
               /\ UNCHANGED << results, tickStart >>
       ELSE /\ pc' = IF entry = "run" THEN "loop" ELSE "returned"
            /\ results' = IF entry = "run" THEN (0 :> save_stats) ELSE results
            /\ tickStart' = {u \in Users : active[u]}
            /\ targets' = [alias |-> FALSE, elems |-> {}]
            /\ source' = 0
            /\ samples' = << >>
            /\ UNCHANGED << nusers, active, joined, queue, active_users,
                            friends, repeated_nodes >>
    /\ UNCHANGED << entry, n, m, growth, trail, now, shares, share_ops, last_share, left,
                    shares_downloaded, shares_received, inactive_users,
                    last, cur, growLeft, ev, acted >>

(* --------------------------------- run -------------------------------- *)

\* line 283: repeated_nodes[:] = [x for x in repeated_nodes if x.active]
Compact(rn) == [u \in Users |-> IF active[u] THEN rn[u] ELSE 0]

\* line 275: last = env.now != env.peek()
IsFirstOfTick == now # Peek

\* a snapshot taken at every tick
SnapshotDue_Always(t) == TRUE

\* line 279: env.peek() % 10 == 0, with the period scaled
SnapshotDue(t) == t % STATS_INTERVAL = 0

\* lines 274-283: the loop test, `last`, and on the first event of a tick
\* that is a multiple of the period, the snapshot and the compaction
RunLoop ==
    /\ pc = "loop"
    /\ IF Peek < SIMULATION_ROUNDS
       THEN /\ pc' = "step"
            /\ last' = IsFirstOfTick
            /\ IF last' /\ SnapshotDue(Peek)
               THEN /\ results' = results @@ ((now + 1) :> save_stats)
                    /\ repeated_nodes' = Compact(repeated_nodes)
               ELSE UNCHANGED << results, repeated_nodes >>
       ELSE /\ pc' = "done"
            /\ UNCHANGED << last, results, repeated_nodes >>
    /\ samples' = << >>
    /\ UNCHANGED << entry, n, m, growth, trail, now, queue, nusers, userFields, active_users,
                    inactive_users, targets, source, cur, growLeft,
                    ev, acted, tickStart >>

\* a process that forgets to test self.active
LoopTest_Always(u) == TRUE

\* line 148: while self.active
LoopTest(u) == active[u]

\* line 284, env.step(): the next event is taken off the queue and the
\* clock set to its time.  An Initialize or Timeout event resumes the
\* user's generator at `while self.active` (line 148): an active user
\* runs the loop body, an inactive one ends its generator, which schedules
\* the Process event itself (NORMAL, at env.now).
EnvStep ==
    /\ pc = "step"
    /\ LET e == Head(queue)
           resumes == e.kind \in {"Initialize", "Timeout"}
           runs == resumes /\ LoopTest(e.user)
           fresh == e.time # now
           base == IF fresh THEN [u \in Users |-> 0] ELSE acted
       IN /\ now' = e.time
          /\ tickStart' = IF fresh THEN {u \in Users : active[u]} ELSE tickStart
          /\ acted' = IF runs THEN [base EXCEPT ![e.user] = @ + 1] ELSE base
          /\ cur' = IF runs THEN e.user ELSE cur
          /\ pc' = IF runs THEN "retrieve_data" ELSE "stepped"
          /\ queue' = IF resumes /\ ~runs
                      THEN Schedule(Tail(queue),
                                    Event(e.time, NORMAL, "Process", e.user))
                      ELSE Tail(queue)
          /\ growth' = IF fresh THEN NoGrowth ELSE growth
    /\ ev' = NoEvent
    /\ trail' = << >>
    /\ UNCHANGED << entry, n, m, nusers, userFields, active_users, inactive_users,
                    repeated_nodes, targets, source, results, last,
                    growLeft, samples >>

(* ------------------------------ User methods -------------------------- *)

\* a timeout of zero time units instead of one
YieldTimeout_Zero(q, u) == Schedule(q, Event(now, NORMAL, "Timeout", u))

\* line 152: yield self.env.timeout(1)
YieldTimeout(q, u) == Schedule(q, Event(now + 1, NORMAL, "Timeout", u))

\* a loop body that calls quit_application before share_data
After_QuitBeforeShare(method) ==
    CASE method = "retrieve_data" -> "quit_application"
      [] method = "quit_application" -> "share_data"
      [] method = "share_data" -> "stepped"

\* lines 149-152: the loop body calls retrieve_data, share_data and
\* quit_application in this order, then yields
After(method) ==
    CASE method = "retrieve_data" -> "share_data"
      [] method = "share_data" -> "quit_application"
      [] method = "quit_application" -> "stepped"

\* a flush that overwrites shares_downloaded instead of adding to it
Flush_Assign(u) ==
    /\ shares_downloaded' = [shares_downloaded EXCEPT ![u] = shares_received[u]]

\* lines 157-158 (and 164-165)
Flush(u) ==
    /\ shares_downloaded' = [shares_downloaded EXCEPT ![u] = @ + shares_received[u]]

\* lines 154-158; random.random() < 0.5 can come out either way
RetrieveData ==
    /\ pc = "retrieve_data"
    /\ \E hit \in BOOLEAN :
          /\ IF hit
             THEN /\ Flush(cur)
                  /\ shares_received' = [shares_received EXCEPT ![cur] = 0]
             ELSE UNCHANGED << shares_downloaded, shares_received >>
    /\ pc' = After("retrieve_data")
    /\ trail' = Append(trail, "retrieve_data")
    /\ queue' = IF pc' = "stepped" THEN YieldTimeout(queue, cur) ELSE queue
    /\ UNCHANGED << entry, n, m, growth, now, nusers, friends, shares, share_ops,
                    last_share, active, joined, left, active_users,
                    inactive_users, repeated_nodes, targets, source, results,
                    last, cur, growLeft, samples, ev, acted, tickStart >>

\* a threshold without the base probability 0.1
share_threshold_NoBase(u) == now - last_share[u]

\* line 139, in tenths: 0.1 + (env.now - last_share) * 0.1
share_threshold(u) == 1 + (now - last_share[u])

\* line 162: random.random() lies in [0, 1), so the test can succeed when
\* the threshold is positive and can fail when it is below 1
ShareOutcomes(u) == {b \in BOOLEAN : IF b THEN share_threshold(u) > 0
                                            ELSE share_threshold(u) < 10}

\* a delivery that reaches every distinct friend once
Deliver_Distinct(recv, u) ==
    [v \in Users |-> recv[v] + (IF friends[u][v] > 0 THEN 1 ELSE 0)]

\* lines 173-174: one increment per entry of self.friends
Deliver(recv, u) == [v \in Users |-> recv[v] + friends[u][v]]

\* lines 160-174
ShareData ==
    /\ pc = "share_data"
    /\ \E hit \in ShareOutcomes(cur) :
          /\ IF hit
             THEN /\ Flush(cur)
                  /\ shares_received' =
                        Deliver([shares_received EXCEPT ![cur] = 0], cur)
                  /\ shares' = [shares EXCEPT ![cur] = @ + 1 + Len_(friends[cur])]
                  /\ share_ops' = [share_ops EXCEPT ![cur] = @ + 1]
                  /\ last_share' = [last_share EXCEPT ![cur] = now]
                  /\ ev' = [op |-> "share", user |-> cur, t |-> now,
                            d |-> Len_(friends[cur])]
             ELSE UNCHANGED << shares_downloaded, shares_received, shares,
                               share_ops, last_share, ev >>
    /\ pc' = After("share_data")
    /\ trail' = Append(trail, "share_data")
    /\ queue' = IF pc' = "stepped" THEN YieldTimeout(queue, cur) ELSE queue
    /\ UNCHANGED << entry, n, m, growth, now, nusers, friends, active, joined, left,
                    active_users, inactive_users, repeated_nodes, targets,
                    source, results, last, cur, growLeft, samples, acted,
                    tickStart >>

\* a quit that forgets line 182, the removal from active_users
Quit_NoRemove(u) ==
    /\ active' = [active EXCEPT ![u] = FALSE]
    /\ left' = [left EXCEPT ![u] = now]
    /\ inactive_users' = BagPlus(inactive_users, BagOfSet({u}))
    /\ active_users' = active_users
    /\ pc' = After("quit_application")

\* lines 179-182; list.remove raises ValueError when self is not in the list
Quit(u) ==
    /\ active' = [active EXCEPT ![u] = FALSE]
    /\ left' = [left EXCEPT ![u] = now]
    /\ inactive_users' = BagPlus(inactive_users, BagOfSet({u}))
    /\ IF active_users[u] > 0
       THEN /\ active_users' = [active_users EXCEPT ![u] = @ - 1]
            /\ pc' = After("quit_application")
       ELSE /\ active_users' = active_users
            /\ pc' = "ValueError"

\* lines 176-183, then line 152: the generator yields env.timeout(1), which
\* schedules a Timeout event (NORMAL) one time unit ahead
QuitApplication ==
    /\ pc = "quit_application"
    /\ \E hit \in BOOLEAN :
          /\ IF hit
             THEN /\ Quit(cur)
                  /\ ev' = [op |-> "quit", user |-> cur, t |-> now,
                            d |-> Len_(friends[cur])]
             ELSE /\ pc' = After("quit_application")
                  /\ UNCHANGED << active, left, inactive_users, active_users,
                                  ev >>
    /\ trail' = Append(trail, "quit_application")
    /\ queue' = IF pc' = "stepped"
                THEN YieldTimeout(queue, cur)
                ELSE queue
    /\ UNCHANGED << entry, n, m, growth, now, nusers, friends, shares, share_ops,
                    last_share, joined, shares_downloaded, shares_received,
                    repeated_nodes, targets, source, results, last, cur,
                    growLeft, samples, acted, tickStart >>

(* ------------------------------- add_users ---------------------------- *)

\* a growth step that may add no user at all (randrange(0, high))
GrowthRange_FromZero == 0..(GrowHigh - 1)

\* line 204: randrange(int(INITIAL_USERS * 0.01), int(INITIAL_USERS * 0.05), 1)
GrowthRange == GrowLow..(GrowHigh - 1)

\* lines 285-286 and 204: after env.step(), add_users runs when the event
\* was the first of its tick; randrange draws the number of new users
Stepped ==
    /\ pc = "stepped"
    /\ IF last
       THEN \E g \in GrowthRange :
               /\ growLeft' = g
               /\ growth' = [calls |-> growth.calls + 1, g |-> g]
               /\ pc' = IF g > 0 THEN "add_users" ELSE "loop"
       ELSE /\ pc' = "loop"
            /\ UNCHANGED << growLeft, growth >>
    /\ UNCHANGED << entry, n, m, trail, now, queue, nusers, userFields, active_users,
                    inactive_users, repeated_nodes, targets, source, results,
                    last, cur, samples, ev, acted, tickStart >>

\* an attachment that forgets lines 210-211, the friends' side of the edge
Befriend_OneWay(fr, newuser, F) ==
    [u \in Users |-> IF u = newuser THEN BagPlus(fr[u], BagOfSet(F)) ELSE fr[u]]

\* lines 209-211: newuser.friends += newfriends; each friend appends newuser
Befriend(fr, newuser, F) ==
    [u \in Users |->
        IF u = newuser THEN BagPlus(fr[u], BagOfSet(F))
        ELSE IF u \in F THEN BagPlus(fr[u], BagOfSet({newuser}))
        ELSE fr[u]]

\* lines 205-214, one iteration of the for loop of add_users
AddUser ==
    /\ pc = "add_users"
    /\ nusers < MaxUsers
    /\ LET newuser == nusers + 1
           st1 == SubsetStatus(active_users, 1, active')
       IN /\ UserInit({newuser})
          /\ IF st1 # "returned"
             THEN /\ pc' = st1
                  /\ samples' = << Call(active_users, 1, active', st1, {}) >>
                  /\ UNCHANGED << friends, repeated_nodes, active_users,
                                  growLeft, ev >>
             ELSE \E R \in _random_subset(active_users, 1, active') :
                    LET role_model == CHOOSE x \in R : TRUE
                        k == Len_(friends[role_model])
                        c1 == Call(active_users, 1, active', st1, R)
                        st2 == SubsetStatus(repeated_nodes, k, active')
                    IN IF st2 # "returned"
                       THEN /\ pc' = st2
                            /\ samples' = << c1, Call(repeated_nodes, k,
                                                      active', st2, {}) >>
                            /\ UNCHANGED << friends, repeated_nodes,
                                            active_users, growLeft, ev >>
                       ELSE \E newfriends \in _random_subset(repeated_nodes, k, active') :
                               /\ friends' = Befriend(friends, newuser, newfriends)
                               /\ repeated_nodes' =
                                     BagPlus(BagPlus(repeated_nodes,
                                         BagTimes(k, BagOfSet({newuser}))),
                                         BagOfSet(newfriends))
                               /\ active_users' = BagPlus(active_users,
                                                          BagOfSet({newuser}))
                               /\ samples' = << c1, Call(repeated_nodes, k,
                                                  active', st2, newfriends) >>
                               /\ growLeft' = growLeft - 1
                               /\ pc' = IF growLeft' = 0 THEN "loop"
                                                         ELSE "add_users"
                               /\ ev' = [op |-> "join", user |-> newuser,
                                         t |-> now, d |-> k]
    /\ UNCHANGED << entry, n, m, growth, trail, now, shares, share_ops, last_share, left,
                    shares_downloaded, shares_received, inactive_users,
                    targets, source, results, last, cur, acted, tickStart >>

(* ------------------------------ specification ------------------------- *)

Next ==
    \/ PrepareNetwork
    \/ Build
    \/ RunLoop
    \/ EnvStep
    \/ RetrieveData
    \/ ShareData
    \/ QuitApplication
    \/ Stepped
    \/ AddUser

Spec == Init /\ [][Next]_vars

(* ------------------- one user followed over many ticks ---------------- *)

\* Lines 104-127 and 214 at any tick: add_users has just created user 1
\* at env.now (last_share = 0, joined = env.now, its Initialize event in
\* the queue) and run() is about to call env.step(); the other users are
\* left out, the user has no friends.
InitShare ==
    /\ entry = "run" /\ n = INITIAL_USERS /\ m = 1
    /\ pc = "step"
    /\ now \in 0..MaxTick
    /\ queue = << Event(now, URGENT, "Initialize", 1) >>
    /\ nusers = 1
    /\ friends = [u \in Users |-> EmptyBag]
    /\ shares = [u \in Users |-> 0]
    /\ share_ops = [u \in Users |-> 0]
    /\ last_share = [u \in Users |-> 0]
    /\ active = [u \in Users |-> u = 1]
    /\ joined = [u \in Users |-> IF u = 1 THEN now ELSE 0]
    /\ left = [u \in Users |-> -1]
    /\ shares_downloaded = [u \in Users |-> 0]
    /\ shares_received = [u \in Users |-> 0]
    /\ active_users = BagOfSet({1})
    /\ inactive_users = EmptyBag
    /\ repeated_nodes = EmptyBag
    /\ targets = [alias |-> FALSE, elems |-> {}]
    /\ source = 0
    /\ results = << >>
    /\ last = FALSE
    /\ cur = 0
    /\ growLeft = 0
    /\ samples = << >>
    /\ ev = NoEvent
    /\ acted = [u \in Users |-> 0]
    /\ tickStart = {}
    /\ growth = NoGrowth
    /\ trail = << >>

\* lines 274 and 284 for the user followed on its own: the loop test, with
\* MaxTick + 1 for SIMULATION_ROUNDS, then env.step(); no snapshot is
\* taken and add_users adds nobody
RunLoopAlone ==
    /\ pc = "stepped"
    /\ pc' = IF Peek < MaxTick + 1 THEN "step" ELSE "done"
    /\ UNCHANGED << entry, n, m, growth, trail, now, queue, nusers,
                    userFields, active_users, inactive_users,
                    repeated_nodes, targets, source, results, last, cur,
                    growLeft, samples, ev, acted, tickStart >>

NextShare ==
    \/ EnvStep
    \/ RetrieveData
    \/ ShareData
    \/ QuitApplication
    \/ RunLoopAlone

SpecShare == InitShare /\ [][NextShare]_vars

(* ------------------------------- claims ------------------------------- *)

\* the run has crashed or hangs inside a call: nothing is observed there
Stuck == pc \in {"AssertionError", "IndexError", "hang", "ValueError"}

\* prepare_network has returned (to run, or to its direct caller)
Built == pc \in {"returned", "loop", "step", "retrieve_data", "share_data",
                 "quit_application", "stepped", "add_users", "done"}

\* C1: once prepare_network(n, m) has returned, and from then on, no user
\* is in its own friends list and no user occurs twice in a friends list.
C1_NoSelfLoopNoDuplicateEdge ==
    Built => \A u \in Created : /\ friends[u][u] = 0
                                /\ \A v \in Created : friends[u][v] <= 1

\* C2: with m = 1, the snapshot of tick 0 reports n active users, no
\* inactive user, no shares, 2 * (n - 1) friend entries and a degree
\* histogram whose counts sum to n.
C2_SnapshotZero ==
    (entry = "run" /\ 0 \in DOMAIN results) =>
        LET s0 == results[0]
        IN /\ s0.users_active = n
           /\ s0.users_inactive = 0
           /\ s0.shares = 0
           /\ s0.friends = 2 * (n - 1)
           /\ Sum(s0.friend_distribution, DOMAIN s0.friend_distribution) = n

\* C3: at every observation point every created user is in exactly one of
\* active_users and inactive_users, exactly once; a user in active_users
\* has active = true and left = -1; a user in inactive_users has
\* active = false and left >= joined.
C3_ActiveInactivePartition ==
    ~Stuck =>
        \A u \in Users :
            /\ active_users[u] + inactive_users[u] = (IF u \in Created THEN 1 ELSE 0)
            /\ active_users[u] > 0 => (active[u] /\ left[u] = -1)
            /\ inactive_users[u] > 0 => (~active[u] /\ left[u] >= joined[u])

\* C3 witness: a user has quit in a tick after the one it joined in, while
\* another user is still active.
C3_Witness ==
    /\ ~Stuck
    /\ \E u, v \in Created : /\ inactive_users[u] = 1 /\ left[u] > joined[u]
                             /\ joined[u] > 0
                             /\ active_users[v] = 1


\* the distinct active elements a call had to draw from
Candidates(c) == {x \in BagElems(c.seq) : x \in c.act}

\* C4: a call of the sampler on a sequence with fewer than k distinct
\* active elements (an empty one included) ends with InsufficientCandidates.
C4_InsufficientCandidates ==
    \A i \in DOMAIN samples :
        Cardinality(Candidates(samples[i])) < samples[i].k
            => samples[i].status = "InsufficientCandidates"

\* C5: a call on a sequence with at least k distinct active elements
\* returns exactly k distinct elements of the sequence, all active when
\* called, whatever stale entries the sequence holds; and a user that has
\* just joined through add_users has only active friends, each once, and
\* is not its own friend.
C5_SampleUniqueActive ==
    /\ \A i \in DOMAIN samples :
          LET c == samples[i]
          IN Cardinality(Candidates(c)) >= c.k =>
                /\ c.status = "returned"
                /\ Cardinality(c.out) = (IF c.k > 0 THEN c.k ELSE 0)
                /\ c.out \subseteq Candidates(c)
    /\ ev.op = "join" =>
          \A v \in Users : friends[ev.user][v] > 0 =>
                /\ active[v] /\ joined[v] <= ev.t
                /\ v # ev.user
                /\ friends[ev.user][v] = 1

\* C5 witness: add_users has drawn two friends for a new user from a
\* repeated_nodes that held an entry of a user that had quit.
C5_Witness ==
    /\ ev.op = "join" /\ ev.d = 2 /\ Len(samples) = 2
    /\ samples[2].status = "returned" /\ samples[2].k = 2
    /\ \E x \in BagElems(samples[2].seq) : x \notin samples[2].act

\* C6: v is in u.friends exactly if u is in v.friends, for all users,
\* active or not, in every state of a run.
C6_DegreeSymmetry ==
    \A u, v \in Users : (friends[u][v] > 0) <=> (friends[v][u] > 0)

\* C6 witness: a user that joined through add_users is the friend of a
\* user that has since quit.
C6_Witness ==
    \E u, v \in Created : /\ u # v /\ joined[v] > 0 /\ ~active[u]
                          /\ friends[u][v] > 0 /\ friends[v][u] > 0


\* C7: a share action of a user with d friends at tick t raises its shares
\* by 1 + d and its share_ops by 1, sets last_share to t and raises the
\* shares_received of each of its friends by exactly 1, d in total; the
\* counters of every other user stay as they are.
C7_ShareEffect ==
    [][(pc = "share_data" /\ share_ops'[cur] # share_ops[cur]) =>
          LET d == Len_(friends[cur])
              F == BagElems(friends[cur])
          IN /\ shares'[cur] = shares[cur] + 1 + d
             /\ share_ops'[cur] = share_ops[cur] + 1
             /\ last_share'[cur] = now
             /\ \A v \in F : shares_received'[v] = shares_received[v] + 1
             /\ Sum([v \in Users |-> shares_received'[v] - shares_received[v]], F) = d
             /\ \A v \in Users \ (F \cup {cur}) :
                   shares_received'[v] = shares_received[v]
             /\ \A v \in Users \ {cur} :
                   /\ shares'[v] = shares[v]
                   /\ share_ops'[v] = share_ops[v]
                   /\ last_share'[v] = last_share[v]
                   /\ shares_downloaded'[v] = shares_downloaded[v]]_vars

\* C8: in the snapshot just taken, share_neverretr is the sum of
\* shares_received over all users, active and inactive.
C8_NeverRetrievedIsPending ==
    (pc = "step" /\ last /\ Peek \in DOMAIN results) =>
        results[Peek].share_neverretr
            = Sum([u \in Users |-> (active_users[u] + inactive_users[u])
                                      * shares_received[u]], Users)

\* C9: a user whose active flag is false keeps it false; its shares,
\* share_ops, shares_downloaded, last_share, left and friends never change
\* again; its process runs no retrieve, share or quit; and no call of the
\* sampler (role model, friends of a new user) returns it.
C9_InactiveIsTerminal ==
    [][\A u \in Created : ~active[u] =>
          /\ ~active'[u]
          /\ shares'[u] = shares[u]
          /\ share_ops'[u] = share_ops[u]
          /\ shares_downloaded'[u] = shares_downloaded[u]
          /\ last_share'[u] = last_share[u]
          /\ left'[u] = left[u]
          /\ friends'[u] = friends[u]
          /\ ~(pc' \in {"retrieve_data", "share_data", "quit_application"}
                 /\ cur' = u)
          /\ \A i \in DOMAIN samples' : u \notin samples'[i].out]_vars

\* C9 witness: a user quit in an earlier tick, its stale entries are still
\* in repeated_nodes, and add_users has just drawn friends for a new user.
C9_Witness ==
    /\ ev.op = "join" /\ ev.d >= 1
    /\ \E u \in Created : /\ ~active[u] /\ left[u] < now
                          /\ repeated_nodes[u] > 0
                          /\ friends[u][ev.user] = 0

\* C10: no user runs its per-step action twice in a tick, and when the
\* clock advances, or the run ends, every user that was active when the
\* tick began has run it exactly once.
C10_EveryActiveUserActsOnce ==
    [][/\ \A u \in Users : acted'[u] <= 1
       /\ (now' # now \/ pc' = "done") =>
             \A u \in tickStart : acted[u] = 1]_vars

\* C10 witness: the run has ended after a last tick in which one user quit
\* and a user that acts after it in the same tick has acted too.
C10_Witness ==
    /\ pc = "done"
    /\ \E u, v \in tickStart : /\ u < v /\ left[u] = now
                               /\ acted[u] = 1 /\ acted[v] = 1


\* line 17, the value the program is run with
INITIAL_USERS_Deployed == 100000

\* int() of the non-negative rational p / 100, as line 204 truncates
IntOfHundredths(p) == p \div 100

\* the ceiling of the non-negative rational p / 100
CeilOfHundredths(p) == (p + 99) \div 100

\* the users that add_users has appended to active_users in this tick
JoinedNow(au, jn, t) == {u \in Users : au[u] > 0 /\ jn[u] = t}

\* C11: add_users is called exactly once in every tick t >= 1 (the step
\* from tick t-1 to tick t) and never in tick 0; a call that returns has
\* added g new active users with low <= g < high, where the bounds that
\* line 204 truncates with int() are the ceilings of 1% and 5% of the
\* initial size; the number of users, active plus inactive, never
\* decreases.
C11_GrowthOncePerBoundary ==
    [][/\ growth'.calls <= 1
       /\ growth'.calls = 1 =>
             (now' >= 1 /\ growth'.g \in GrowLow..(GrowHigh - 1))
       /\ (now' # now \/ pc' = "done") =>
             growth.calls = (IF now >= 1 THEN 1 ELSE 0)
       /\ (pc = "add_users" /\ pc' = "loop") =>
             /\ Cardinality(JoinedNow(active_users', joined', now)) = growth.g
             /\ \A u \in JoinedNow(active_users', joined', now) : active'[u]
       /\ nusers' >= nusers
       /\ Len_(active_users') + Len_(inactive_users')
             >= Len_(active_users) + Len_(inactive_users)
       /\ IntOfHundredths(INITIAL_USERS_Deployed * 1)
             = CeilOfHundredths(INITIAL_USERS_Deployed * 1)
       /\ IntOfHundredths(INITIAL_USERS_Deployed * 5)
             = CeilOfHundredths(INITIAL_USERS_Deployed * 5)]_vars

\* C11 witness: the run is in tick 2, add_users has returned there after
\* adding one user, and it had added a user in tick 1 as well.
C11_Witness ==
    /\ pc = "loop" /\ now = 2 /\ growth = [calls |-> 1, g |-> 1]
    /\ \E u, v \in Created : /\ joined[u] = 1 /\ joined[v] = 2
                             /\ active_users[v] = 1

\* C12: prepare_network(n, m) raises its parameter error (AssertionError,
\* line 52) exactly when m < 1 or m >= n, and it raises before it has
\* created a user, registered a process or assigned active_users or
\* repeated_nodes.
C12_InvalidParameter ==
    [][pc = "prepare_network" =>
          /\ (pc' = "AssertionError") <=> (m < 1 \/ m >= n)
          /\ pc' = "AssertionError" =>
                /\ nusers' = nusers /\ nusers' = 0
                /\ active' = active /\ joined' = joined
                /\ queue' = queue
                /\ active_users' = active_users
                /\ repeated_nodes' = repeated_nodes
                /\ inactive_users' = inactive_users]_vars

\* C12 witness: the call was made with m = n >= 1 and has raised.
C12_Witness ==
    /\ pc = "AssertionError" /\ m = n /\ m >= 1
    /\ nusers = 0 /\ active_users = EmptyBag

\* C13: in every step of a run (a user's own retrieve, share or quit, a
\* friend's share, add_users, the compaction) the shares, share_ops and
\* shares_downloaded of every user stay or grow.
C13_CountersMonotonic ==
    [][\A u \in Users :
          /\ shares'[u] >= shares[u]
          /\ share_ops'[u] >= share_ops[u]
          /\ shares_downloaded'[u] >= shares_downloaded[u]]_vars

\* C13 witness: after the growth of tick 1 and the compaction of tick 2, a
\* user has shared twice and has downloaded a share of a friend.
C13_Witness ==
    /\ 2 \in DOMAIN results /\ now = 2
    /\ \E v \in Created : joined[v] = 1
    /\ \E u \in Created : /\ share_ops[u] >= 2 /\ shares_downloaded[u] >= 1
                          /\ shares[u] >= 4

\* C14: no user has run retrieve_data, share_data or quit_application in a
\* tick t >= 1 before add_users has been called for that tick.
C14_GrowthBeforeTick ==
    (now >= 1 /\ Len(trail) > 0) => growth.calls = 1

\* C15: once the network is built, every active user occurs in
\* repeated_nodes as many times as its friends list has entries, and
\* right after a compaction no inactive user occurs in repeated_nodes.
C15_RepeatedNodesIsDegree ==
    /\ (Built /\ ~Stuck) =>
          \A u \in Created :
             active_users[u] > 0 => repeated_nodes[u] = Len_(friends[u])
    /\ (pc = "step" /\ last /\ Peek \in DOMAIN results) =>
          \A u \in Created : ~active[u] => repeated_nodes[u] = 0

\* the last tick for which run() has had to decide about a snapshot
Horizon == IF pc = "step" /\ last THEN now + 1 ELSE now

\* C16: from snapshot 0 on, the keys of results are exactly the multiples
\* of the period up to the tick the run has come to, all below
\* SIMULATION_ROUNDS; the snapshot keyed t >= 1 is taken while the clock
\* still shows t - 1, when no event of tick t - 1 is left, every user that
\* began tick t - 1 active has acted in it and the growth of tick t - 1 is
\* over; snapshot 0 is taken before any user has acted; and a run that
\* ends has completed tick SIMULATION_ROUNDS - 1 and has no event left
\* before SIMULATION_ROUNDS.
C16_SnapshotSchedule ==
    /\ DOMAIN results # {} =>
          /\ DOMAIN results = {t \in 0..Horizon : t % STATS_INTERVAL = 0}
          /\ Horizon < SIMULATION_ROUNDS
    /\ (pc = "step" /\ last /\ Peek \in DOMAIN results) =>
          /\ results[Peek] = save_stats
          /\ Peek = now + 1
          /\ \A u \in tickStart : acted[u] = 1
          /\ growth.calls = (IF now >= 1 THEN 1 ELSE 0)
          /\ growLeft = 0 \/ now = 0
    /\ (pc = "loop" /\ now = 0 /\ \A u \in Users : acted[u] = 0) =>
          results[0] = save_stats
    /\ pc = "done" =>
          /\ now = SIMULATION_ROUNDS - 1
          /\ Peek >= SIMULATION_ROUNDS

\* C16 witness: the run has ended after its last tick with the snapshots
\* of ticks 0 and 2, and users have shared and quit along the way.
C16_Witness ==
    /\ pc = "done" /\ DOMAIN results = {0, 2}
    /\ results[2].users_inactive >= 1 /\ results[2].shares >= 1
    /\ results[2].users = 3

\* the methods of one loop body of User.run, in the order of the claim
BodyOrder == << "retrieve_data", "share_data", "quit_application" >>

\* C17: in a loop body retrieve_data runs first, share_data second and
\* quit_application third and last; left is only written by a
\* quit_application that comes after the retrieve and share trials of
\* the same user and tick, to that tick; after the quit trial the body
\* only yields, and a user that has quit starts no method again.
C17_RetrieveShareQuitOrder ==
    [][/\ pc' = "retrieve_data" => trail' = << >>
       /\ pc' = "share_data" => trail' = SubSeq(BodyOrder, 1, 1)
       /\ pc' = "quit_application" => trail' = SubSeq(BodyOrder, 1, 2)
       /\ Len(trail') <= 3 /\ trail' = SubSeq(BodyOrder, 1, Len(trail'))
       /\ \A u \in Users : left'[u] # left[u] =>
             /\ pc = "quit_application" /\ u = cur
             /\ trail = SubSeq(BodyOrder, 1, 2)
             /\ left'[u] = now /\ ~active'[u]
             /\ pc' \in {"stepped", "ValueError"}
       /\ pc = "quit_application" => pc' \in {"stepped", "ValueError"}
       /\ \A u \in Created : ~active[u] =>
             ~(cur' = u /\ pc' \in {"retrieve_data", "share_data",
                                    "quit_application"})]_vars

\* C17 witness: a user has shared with a friend and quit in the same tick
\* t >= 1, the share first.
C17_Witness ==
    /\ pc = "stepped" /\ ev.op = "quit" /\ ev.user = cur /\ now >= 1
    /\ left[cur] = now /\ last_share[cur] = now /\ share_ops[cur] >= 1
    /\ \E v \in Created : /\ v # cur /\ friends[cur][v] > 0
                          /\ shares_received[v] >= 1

\* C18: every call of the sampler made by add_users finds enough distinct
\* active users in its sequence (active_users is not empty for the role
\* model, repeated_nodes holds len(role_model.friends) of them for the
\* friends), so add_users neither hangs nor raises.
C18_GrowthSamplerSatisfiable ==
    /\ pc \notin {"hang", "IndexError"}
    /\ now >= 1 =>
          \A i \in DOMAIN samples :
             /\ Cardinality(Candidates(samples[i])) >= samples[i].k
             /\ samples[i].status = "returned"

\* C19: in every state the shares of all users sum to the sum of their
\* share_ops, shares_received and shares_downloaded; so in every snapshot
\* share_noretr is at least share_ops, which is at least 0, and in the
\* snapshot just taken it is share_ops plus the pending shares_received.
C19_ShareConservation ==
    /\ Sum(shares, Users)
          = Sum([u \in Users |-> share_ops[u] + shares_received[u]
                                   + shares_downloaded[u]], Users)
    /\ \A t \in DOMAIN results :
          /\ results[t].share_noretr >= results[t].share_ops
          /\ results[t].share_ops >= 0
          /\ results[t].share_noretr >= 0
    /\ (pc = "step" /\ last /\ Peek \in DOMAIN results) =>
          results[Peek].share_noretr
             = results[Peek].share_ops + Sum(shares_received, Users)

\* C19 witness: in the snapshot of tick 2 some shares are downloaded,
\* some are still pending, and a user with a duplicate friends entry has
\* shared.
C19_Witness ==
    /\ 2 \in DOMAIN results
    /\ results[2].share_ops >= 2
    /\ results[2].share_noretr > results[2].share_ops
    /\ results[2].shares > results[2].share_noretr
    /\ \E u \in Created : share_ops[u] >= 1 /\ \E v \in Users : friends[u][v] >= 2

\* C20: a share trial at tick t with t - last_share >= 9 always succeeds,
\* so once a user has had its share trial of tick t, t - last_share <= 8;
\* as last_share starts at 0, a user that joins at tick t >= 9 has shared,
\* for the first time, once its first share trial is over.
C20_ShareForced ==
    (cur \in Created /\ Len(trail) >= 2) =>
        /\ now - last_share[cur] <= 8
        /\ (joined[cur] = now /\ now >= 9) =>
              (last_share[cur] = now /\ share_ops[cur] = 1)

\* C20 witness: a user joined at tick 9, shared at once, did not share
\* for the nine ticks that followed and has shared again at tick 18.
C20_Witness ==
    /\ cur = 1 /\ pc = "quit_application"
    /\ joined[1] = 9 /\ now = 18 /\ last_share[1] = 18 /\ share_ops[1] = 2
=============================================================================
